---------------------------- MODULE Spec2Model ----------------------------
(* chroniax-ml: calibration of a scan heart-rate sensor against a reference *)
(* sensor.  The model covers the overlap resampler and context annotator    *)
(* (util/scanwatch_utils.py), the data pair builder, the model fitter and    *)
(* predictor, and the contextual model trainer (service/ml).                 *)
(*                                                                           *)
(* Time is counted in ticks since the epoch, TicksPerSec ticks to a second,  *)
(* so that instants that are not whole seconds exist.  Durations and         *)
(* frequencies are whole seconds, as in the source (int(duration), "1min"). *)
EXTENDS Integers, Sequences, FiniteSets, TLC

VARIABLES
    \* ---- resample_scanwatch_by_overlap (util/scanwatch_utils.py)
    rs_pc,          \* "rows": between rows, "row": inside a row, "done": returned
    freq,           \* bin width, in seconds
    min_coverage_s, \* the caller's coverage threshold, in seconds
    current_time,   \* _process_row's running instant, in ticks
    rs_left,        \* (duration, value) pairs of the current row still to be read
    rs_cells,       \* (duration, value) pairs read so far, over all rows
    window_data,    \* bin start -> [weighted_sum, coverage], touched bins only
    last_segment,   \* the segment _process_segment handled last, with its overlaps
    contributed,    \* bin start -> the values of the segments that overlapped the bin
    result_df       \* the returned rows, ordered by window_utc

rsVars == <<rs_pc, freq, min_coverage_s, current_time, rs_left, rs_cells,
            window_data, last_segment, contributed, result_df>>

VARIABLES
    \* ---- _calculate_sleep_status for one bin (util/scanwatch_utils.py)
    an_pc,          \* "loop": inside the loop over sleep intervals, "done"
    an_freq,        \* bin width, in seconds
    an_window,      \* the bin's window_utc (window_starts[i]), in ticks
    df_sleep,       \* the sleep intervals [start_utc, end_utc, status], in order
    an_k,           \* index of the next sleep interval the loop reads
    best_status,
    max_overlap,
    sleep_status    \* the status stored for the bin

anVars == <<an_pc, an_freq, an_window, df_sleep, an_k, best_status,
            max_overlap, sleep_status>>

VARIABLES
    \* ---- DataPairBuilder.build_pairs (service/ml/data_pair_builder.py)
    pb_pc,          \* "load", "join", "filter", "annotate", "done"
    bin_size,       \* bin width, in seconds
    sw_resampled,   \* the resampler's rows, ordered by window_utc
    df_hr,          \* the reference samples [time, heartRate]
    t10_resampled,  \* the reference aggregates, ordered by window_utc
    paired_df       \* the joined rows, then the filtered, then the returned ones

pbVars == <<pb_pc, bin_size, sw_resampled, df_hr, t10_resampled, paired_df>>

VARIABLES
    \* ---- ContextualModelTrainer.train_and_apply (service/ml/contextual_model_trainer.py)
    tr_pc,          \* "build", "rest", "active", "apply", "export", "done"
    tr_error,       \* "none", or the exception that ended the run
    model_kind,     \* self.model_kind
    pairs,          \* [sleep_status, is_sport] -> number of paired rows of that context
    context_models, \* context -> the model trained for it
    results,        \* the metrics dictionary: key -> value
    fit_calls,      \* the calls of the model fitter so far, in order
    y_hat,          \* [sleep_status, is_sport] -> context of the model that predicted the rows
    export_data     \* the returned summary, <<>> until it is returned

trVars == <<tr_pc, tr_error, model_kind, pairs, context_models, results,
            fit_calls, y_hat, export_data>>

VARIABLES
    \* ---- ModelFitter and ModelPredictor (service/ml/model_fitter.py, model_predictor.py)
    ft_pc,          \* "input", "fitted", "predicted"
    xy,             \* the training points [x, y], in the order given
    fitter,         \* the ModelFitter method called, "" before the fit
    model_meta,     \* the fitted ModelMeta, <<>> before the fit
    x_query,        \* the x value apply_model was last given
    y_predicted     \* what apply_model returned for it

ftVars == <<ft_pc, xy, fitter, model_meta, x_query, y_predicted>>

VARIABLES
    \* ---- MetricsCalculator.calculate_metrics (service/ml/metrics_calculator.py)
    mc_pc,          \* "input", "columns", "done"
    mc_df,          \* the rows [scan_bpm, t10_bpm, y_hat] given to calculate_metrics
    df_copy,        \* the rows with abs_err, bias and zone added
    metrics         \* the returned rows [zone, n, MAE, bias], in order

mcVars == <<mc_pc, mc_df, df_copy, metrics>>

vars == <<rsVars, anVars, pbVars, trVars, ftVars, mcVars>>

\* What an operation of one component leaves alone: the other components.
notRs == <<anVars, pbVars, trVars, ftVars, mcVars>>
notAn == <<rsVars, pbVars, trVars, ftVars, mcVars>>
notPb == <<rsVars, anVars, trVars, ftVars, mcVars>>
notTr == <<rsVars, anVars, pbVars, ftVars, mcVars>>
notFt == <<rsVars, anVars, pbVars, trVars, mcVars>>
notMc == <<rsVars, anVars, pbVars, trVars, ftVars>>

-----------------------------------------------------------------------------
(* Bounds of the model and the sets the inputs are drawn from.               *)

TicksPerSec == 2
MaxStartTick == 5
MaxDuration == 3
MaxSegments == 2

FreqChoices == {2, 3}
MinCoverageChoices == {0, 1, 4}
SegmentValues == {60, 100}
BinSizeChoices == {1}
MaxSleepTick == 4
MaxSleepIntervals == 2
SleepStatuses == {1, 2}

MaxHrSamples == 2
HeartRates == {29, 31, 231}
\* scan_bpm is the pair <<weighted_sum, coverage>>: 29.5, 30, 230 and 230.5 bpm
ScanBpms == {<<59, 2>>, <<60, 2>>, <<460, 2>>, <<461, 2>>}

MaxPoints == 4
MaxRecords == 2
\* The training points the inputs are drawn from, and the x values predicted at.
PointList ==
    <<[x |-> 80, y |-> 85], [x |-> 40, y |-> 45], [x |-> 100, y |-> 105],
      [x |-> 60, y |-> 65], [x |-> 41, y |-> 50], [x |-> 60, y |-> 230],
      [x |-> 80, y |-> 30]>>
QueryXs == {30, 40, 41, 50, 60, 80, 100, 230}

\* A duration cell is <<>> for None and <<d>> for the number d.
None == <<>>
DurationChoices == {None} \cup {<<d>> : d \in (-1)..MaxDuration}

-----------------------------------------------------------------------------
(* Helpers.                                                                  *)

Min(a, b) == IF a <= b THEN a ELSE b
Max(a, b) == IF a >= b THEN a ELSE b

SetMin(S) == CHOOSE m \in S : \A o \in S : m <= o

RECURSIVE SortedSeq(_)
SortedSeq(S) == IF S = {} THEN <<>>
                ELSE <<SetMin(S)>> \o SortedSeq(S \ {SetMin(S)})

-----------------------------------------------------------------------------
(* Overlap resampler.                                                        *)

\* pd.to_timedelta(freq), in ticks
Step(f) == f * TicksPerSec

\* Timestamp.floor(freq)
Floor(t, f) == t - (t % Step(f))

IsValidSegment(duration) == duration # None /\ duration[1] > 0

CalculateOverlapSeconds(seg_start, seg_end, win_start, win_end) ==
    Max(0, Min(seg_end, win_end) - Max(seg_start, win_start))

\* The while loop of _process_segment from current_window on: the
\* <<window, overlap>> updates it makes, in order.
RECURSIVE SegmentLoop(_, _, _, _, _)
SegmentLoop(current_window, last_window, seg_start, seg_end, f) ==
    IF current_window > last_window THEN <<>>
    ELSE LET window_end == current_window + Step(f)
             overlap == CalculateOverlapSeconds(seg_start, seg_end,
                                                current_window, window_end)
             rest == SegmentLoop(current_window + Step(f), last_window,
                                 seg_start, seg_end, f)
         IN  IF overlap > 0 THEN <<(<<current_window, overlap>>)>> \o rest
             ELSE rest

LastWindow(seg_end, f) == Floor(seg_end - TicksPerSec, f)

ProcessSegment(seg_start, seg_end, f) ==
    SegmentLoop(Floor(seg_start, f), LastWindow(seg_end, f), seg_start, seg_end, f)

\* An update that adds the value to the sum without weighting it.
UpdateWindowData_Unweighted(wd, window_start, value, overlap) ==
    LET old == IF window_start \in DOMAIN wd THEN wd[window_start]
               ELSE [weighted_sum |-> 0, coverage |-> 0]
        new == [weighted_sum |-> old.weighted_sum + value,
                coverage |-> old.coverage + overlap]
    IN  [w \in DOMAIN wd \cup {window_start} |->
            IF w = window_start THEN new ELSE wd[w]]

UpdateWindowData(wd, window_start, value, overlap) ==
    LET old == IF window_start \in DOMAIN wd THEN wd[window_start]
               ELSE [weighted_sum |-> 0, coverage |-> 0]
        new == [weighted_sum |-> old.weighted_sum + value * overlap,
                coverage |-> old.coverage + overlap]
    IN  [w \in DOMAIN wd \cup {window_start} |->
            IF w = window_start THEN new ELSE wd[w]]

RECURSIVE ApplyUpdates(_, _, _)
ApplyUpdates(wd, updates, value) ==
    IF updates = <<>> THEN wd
    ELSE ApplyUpdates(UpdateWindowData(wd, Head(updates)[1], value, Head(updates)[2]),
                      Tail(updates), value)

\* The value of a segment joins the values seen by every bin it updates.
RecordValues(seen, updates, value) ==
    LET touched == {updates[i][1] : i \in 1..Len(updates)}
    IN  [w \in DOMAIN seen \cup touched |->
            (IF w \in DOMAIN seen THEN seen[w] ELSE {})
                \cup (IF w \in touched THEN {value} ELSE {})]

\* min(min_coverage_s, int(freq seconds)), in ticks
MinCoverage(mc, f) == Min(mc, f) * TicksPerSec

\* A filter that drops a bin whose coverage is exactly the threshold.
CoverageKept_Strict(coverage, mc, f) == coverage > MinCoverage(mc, f)

\* df['scan_coverage_s'] >= min_coverage
CoverageKept(coverage, mc, f) == coverage >= MinCoverage(mc, f)

ApplyCoverageFilter(rows, mc, f) ==
    LET Keep(r) == CoverageKept(r.scan_coverage_s, mc, f)
    IN  SelectSeq(rows, Keep)

BuildResultDataframe(wd, mc, f) ==
    LET keys == SortedSeq(DOMAIN wd)
        rows == [i \in 1..Len(keys) |->
                    [window_utc |-> keys[i],
                     scan_bpm |-> IF wd[keys[i]].coverage > 0
                                  THEN <<wd[keys[i]].weighted_sum, wd[keys[i]].coverage>>
                                  ELSE <<0, 0>>,
                     scan_coverage_s |-> wd[keys[i]].coverage]]
    IN  ApplyCoverageFilter(rows, mc, f)

NoSegment == [start |-> -1, end |-> -1, duration |-> 0, overlaps |-> <<>>]

RsInit ==
    /\ rs_pc = "rows"
    /\ freq \in FreqChoices
    /\ min_coverage_s \in MinCoverageChoices
    /\ current_time = 0
    /\ rs_left = 0
    /\ rs_cells = 0
    /\ window_data = <<>>
    /\ last_segment = NoSegment
    /\ contributed = <<>>
    /\ result_df = <<>>

\* _process_row on a row whose lists are usable: the walk starts at start_utc.
RsBeginRow ==
    /\ UNCHANGED notRs
    /\ rs_pc = "rows"
    /\ rs_cells < MaxSegments
    /\ \E start \in 0..MaxStartTick, n \in 1..(MaxSegments - rs_cells) :
          /\ current_time' = start
          /\ rs_left' = n
    /\ rs_pc' = "row"
    /\ UNCHANGED <<freq, min_coverage_s, rs_cells, window_data, last_segment,
                   contributed, result_df>>

\* _process_row on a row that _is_valid_row_data rejects, or whose lists are
\* empty: nothing is read and nothing changes.
RsSkipRow ==
    /\ UNCHANGED notRs
    /\ rs_pc = "rows"
    /\ UNCHANGED rsVars

\* One turn of the loop over zip(durations, values).
RsSegment ==
    /\ UNCHANGED notRs
    /\ rs_pc = "row"
    /\ \E duration \in DurationChoices, value \in SegmentValues :
          IF ~IsValidSegment(duration)
          THEN UNCHANGED <<current_time, window_data, last_segment, contributed>>
          ELSE LET segment_start == current_time
                   segment_end == segment_start + duration[1] * TicksPerSec
                   updates == ProcessSegment(segment_start, segment_end, freq)
               IN  /\ current_time' = segment_end
                   /\ window_data' = ApplyUpdates(window_data, updates, value)
                   /\ last_segment' = [start |-> segment_start, end |-> segment_end,
                                       duration |-> duration[1], overlaps |-> updates]
                   /\ contributed' = RecordValues(contributed, updates, value)
    /\ rs_left' = rs_left - 1
    /\ rs_cells' = rs_cells + 1
    /\ rs_pc' = IF rs_left = 1 THEN "rows" ELSE "row"
    /\ UNCHANGED <<freq, min_coverage_s, result_df>>

\* The end of resample_scanwatch_by_overlap: the empty result, or the
\* filtered rows of _build_result_dataframe.
RsBuild ==
    /\ UNCHANGED notRs
    /\ rs_pc = "rows"
    /\ result_df' = IF DOMAIN window_data = {} THEN <<>>
                    ELSE BuildResultDataframe(window_data, min_coverage_s, freq)
    /\ rs_pc' = "done"
    /\ UNCHANGED <<freq, min_coverage_s, current_time, rs_left, rs_cells,
                   window_data, last_segment, contributed>>

RsNext == RsBeginRow \/ RsSkipRow \/ RsSegment \/ RsBuild

-----------------------------------------------------------------------------
(* Context annotator: the sleep status of one bin.                           *)

SleepIntervals ==
    [start_utc : 0..MaxSleepTick, end_utc : 0..MaxSleepTick, status : SleepStatuses]

\* process_sleep_data returns the intervals sorted by start_utc.
SleepFrames ==
    {s \in UNION {[1..n -> SleepIntervals] : n \in 0..MaxSleepIntervals} :
        \A i \in 1..(Len(s) - 1) : s[i].start_utc <= s[i + 1].start_utc}

CalculateTimeOverlap(start1, end1, start2, end2) ==
    IF start2 >= end1 \/ end2 <= start1 THEN 0
    ELSE Min(end1, end2) - Max(start1, start2)

\* A comparison under which a later interval of equal overlap replaces the best.
IsNewBest_OrEqual(overlap, best) == overlap >= best

\* if overlap > max_overlap
IsNewBest(overlap, best) == overlap > best

AnInit ==
    /\ an_pc = "loop"
    /\ an_freq \in BinSizeChoices
    /\ an_window \in {0, Step(an_freq)}
    /\ df_sleep \in SleepFrames
    /\ an_k = 1
    /\ best_status = 0
    /\ max_overlap = 0
    /\ sleep_status = -1

\* df_sleep.empty: the zeros are returned as they are.
AnEmpty ==
    /\ UNCHANGED notAn
    /\ an_pc = "loop"
    /\ df_sleep = <<>>
    /\ sleep_status' = 0
    /\ an_pc' = "done"
    /\ UNCHANGED <<an_freq, an_window, df_sleep, an_k, best_status, max_overlap>>

\* One turn of the loop over zip(sleep_starts, sleep_ends, sleep_statuses).
AnStep ==
    /\ UNCHANGED notAn
    /\ an_pc = "loop"
    /\ an_k <= Len(df_sleep)
    /\ LET overlap == CalculateTimeOverlap(an_window, an_window + Step(an_freq),
                                           df_sleep[an_k].start_utc,
                                           df_sleep[an_k].end_utc)
       IN  IF IsNewBest(overlap, max_overlap)
           THEN /\ max_overlap' = overlap
                /\ best_status' = df_sleep[an_k].status
           ELSE UNCHANGED <<max_overlap, best_status>>
    /\ an_k' = an_k + 1
    /\ UNCHANGED <<an_pc, an_freq, an_window, df_sleep, sleep_status>>

\* sleep_status[i] = best_status
AnStore ==
    /\ UNCHANGED notAn
    /\ an_pc = "loop"
    /\ df_sleep # <<>>
    /\ an_k > Len(df_sleep)
    /\ sleep_status' = best_status
    /\ an_pc' = "done"
    /\ UNCHANGED <<an_freq, an_window, df_sleep, an_k, best_status, max_overlap>>

AnNext == AnEmpty \/ AnStep \/ AnStore

-----------------------------------------------------------------------------
(* Data pair builder.                                                        *)

HR_VALID_LO == 30
HR_VALID_HI == 230
MIN_T10_POINTS == 1

PbWindows(f) == {0, Step(f)}

\* The resampler's output: rows of distinct bins, ordered by window_utc.
ScanFrames(f) ==
    {[i \in 1..Len(ws) |-> [window_utc |-> ws[i], scan_bpm |-> bpm[ws[i]]]] :
        ws \in {SortedSeq(W) : W \in SUBSET PbWindows(f)},
        bpm \in [PbWindows(f) -> ScanBpms]}

HrSamples(f) == [time : 0..(2 * Step(f) - 1), heartRate : HeartRates]

HrFrames(f) == UNION {[1..n -> HrSamples(f)] : n \in 0..MaxHrSamples}

RECURSIVE SumHeartRate(_, _, _)
SumHeartRate(hr, w, f) ==
    IF hr = <<>> THEN 0
    ELSE (IF Floor(Head(hr).time, f) = w THEN Head(hr).heartRate ELSE 0)
         + SumHeartRate(Tail(hr), w, f)

RECURSIVE CountHeartRate(_, _, _)
CountHeartRate(hr, w, f) ==
    IF hr = <<>> THEN 0
    ELSE (IF Floor(Head(hr).time, f) = w THEN 1 ELSE 0)
         + CountHeartRate(Tail(hr), w, f)

\* T10DataProcessor.process_heart_rate_data: floor to the bin, then mean and size
\* per bin; t10_bpm is the pair <<sum, count>>.
ProcessHeartRateData(hr, f) ==
    LET ws == SortedSeq({Floor(hr[i].time, f) : i \in 1..Len(hr)})
    IN  [i \in 1..Len(ws) |->
            [window_utc |-> ws[i],
             t10_bpm |-> <<SumHeartRate(hr, ws[i], f), CountHeartRate(hr, ws[i], f)>>,
             t10_points |-> CountHeartRate(hr, ws[i], f)]]

RECURSIVE ScanRowsAt(_, _)
ScanRowsAt(sw, w) ==
    IF sw = <<>> THEN <<>>
    ELSE (IF Head(sw).window_utc = w THEN <<Head(sw)>> ELSE <<>>) \o ScanRowsAt(Tail(sw), w)

\* pd.merge(t10_resampled, sw_resampled, on window_utc, how='inner')
RECURSIVE Merge(_, _)
Merge(t10, sw) ==
    IF t10 = <<>> THEN <<>>
    ELSE LET l == Head(t10)
             rs == ScanRowsAt(sw, l.window_utc)
         IN  [i \in 1..Len(rs) |->
                 [window_utc |-> l.window_utc, t10_bpm |-> l.t10_bpm,
                  t10_points |-> l.t10_points, scan_bpm |-> rs[i].scan_bpm]]
             \o Merge(Tail(t10), sw)

\* A range test that leaves out the two ends.
Between_Exclusive(q, lo, hi) == q[2] > 0 /\ lo * q[2] < q[1] /\ q[1] < hi * q[2]

\* Series.between(lo, hi) on the quotient q[1] / q[2]; a missing value is not between.
Between(q, lo, hi) == q[2] > 0 /\ lo * q[2] <= q[1] /\ q[1] <= hi * q[2]

ApplyFilters(df) ==
    LET Keep(r) == /\ Between(r.t10_bpm, HR_VALID_LO, HR_VALID_HI)
                   /\ Between(r.scan_bpm, HR_VALID_LO, HR_VALID_HI)
                   /\ r.t10_points >= MIN_T10_POINTS
    IN  SelectSeq(df, Keep)

PbInit ==
    /\ pb_pc = "load"
    /\ bin_size \in BinSizeChoices
    /\ sw_resampled \in ScanFrames(bin_size)
    /\ df_hr \in HrFrames(bin_size)
    /\ t10_resampled = <<>>
    /\ paired_df = <<>>

\* get_t10_data: the reference aggregates.
PbLoadT10 ==
    /\ UNCHANGED notPb
    /\ pb_pc = "load"
    /\ t10_resampled' = ProcessHeartRateData(df_hr, bin_size)
    /\ pb_pc' = "join"
    /\ UNCHANGED <<bin_size, sw_resampled, df_hr, paired_df>>

PbMerge ==
    /\ UNCHANGED notPb
    /\ pb_pc = "join"
    /\ paired_df' = Merge(t10_resampled, sw_resampled)
    /\ pb_pc' = "filter"
    /\ UNCHANGED <<bin_size, sw_resampled, df_hr, t10_resampled>>

PbFilter ==
    /\ UNCHANGED notPb
    /\ pb_pc = "filter"
    /\ paired_df' = ApplyFilters(paired_df)
    /\ pb_pc' = "annotate"
    /\ UNCHANGED <<bin_size, sw_resampled, df_hr, t10_resampled>>

\* _calculate_sleep_status for the bin [win_start, win_end): the loop over the
\* sleep intervals from the k-th on, with the best seen so far.
RECURSIVE SleepStatusLoop(_, _, _, _, _, _)
SleepStatusLoop(win_start, win_end, sleep, k, best, maxov) ==
    IF k > Len(sleep) THEN best
    ELSE LET overlap == CalculateTimeOverlap(win_start, win_end,
                                             sleep[k].start_utc, sleep[k].end_utc)
         IN  IF IsNewBest(overlap, maxov)
             THEN SleepStatusLoop(win_start, win_end, sleep, k + 1, sleep[k].status, overlap)
             ELSE SleepStatusLoop(win_start, win_end, sleep, k + 1, best, maxov)

CalculateSleepStatus(win_start, win_end, sleep) ==
    IF sleep = <<>> THEN 0 ELSE SleepStatusLoop(win_start, win_end, sleep, 1, 0, 0)

HasOverlap(start1, end1, start2, end2) == start2 < end1 /\ end2 > start1

CalculateSportFlag(win_start, win_end, sport) ==
    \E k \in 1..Len(sport) :
        HasOverlap(win_start, win_end, sport[k].start_utc, sport[k].end_utc)

\* annotate_context followed by _add_temporal_features (1970-01-01 is a Thursday).
AnnotateContext(min_df, sleep, sport, f) ==
    [i \in 1..Len(min_df) |->
        [window_utc |-> min_df[i].window_utc,
         t10_bpm |-> min_df[i].t10_bpm,
         t10_points |-> min_df[i].t10_points,
         scan_bpm |-> min_df[i].scan_bpm,
         sleep_status |-> CalculateSleepStatus(min_df[i].window_utc,
                                               min_df[i].window_utc + Step(f), sleep),
         is_sport |-> CalculateSportFlag(min_df[i].window_utc,
                                         min_df[i].window_utc + Step(f), sport),
         hour |-> (min_df[i].window_utc \div (3600 * TicksPerSec)) % 24,
         dow |-> ((min_df[i].window_utc \div (86400 * TicksPerSec)) + 3) % 7]]

\* sort_values('window_utc') on rows of distinct window_utc
RECURSIVE SortByWindow(_)
SortByWindow(df) ==
    IF df = <<>> THEN <<>>
    ELSE LET w == SetMin({df[i].window_utc : i \in 1..Len(df)})
             IsMin(r) == r.window_utc = w
             NotMin(r) == r.window_utc # w
         IN  SelectSeq(df, IsMin) \o SortByWindow(SelectSeq(df, NotMin))

\* The sleep and sport intervals get_t10_data returned with the aggregates.
PbSleepFrames(f) ==
    {<<>>,
     <<[start_utc |-> 0, end_utc |-> Step(f), status |-> 2]>>,
     <<[start_utc |-> 1, end_utc |-> Step(f) + 1, status |-> 1]>>}

PbSportFrames(f) == {<<>>, <<[start_utc |-> Step(f), end_utc |-> Step(f) + 1]>>}

\* annotate_context, _add_temporal_features, and the sorted rows are returned.
PbAnnotate ==
    /\ UNCHANGED notPb
    /\ pb_pc = "annotate"
    /\ \E sleep \in PbSleepFrames(bin_size), sport \in PbSportFrames(bin_size) :
          paired_df' = SortByWindow(AnnotateContext(paired_df, sleep, sport, bin_size))
    /\ pb_pc' = "done"
    /\ UNCHANGED <<bin_size, sw_resampled, df_hr, t10_resampled>>

PbNext == PbLoadT10 \/ PbMerge \/ PbFilter \/ PbAnnotate

-----------------------------------------------------------------------------
(* Contextual model trainer.                                                 *)

MIN_SAMPLES_PER_CONTEXT == 30

ModelKind_PCHIP == "pchip"
ModelKind_ISOTONIC == "isotonic"

\* The kinds a caller may pass: the two the trainer knows and one it does not.
ModelKindChoices == {ModelKind_PCHIP, ModelKind_ISOTONIC, "piecewise"}

Contexts == [sleep_status : {0, 2}, is_sport : BOOLEAN]

PairCounts == {0, 1, MIN_SAMPLES_PER_CONTEXT - 1, MIN_SAMPLES_PER_CONTEXT}

RECURSIVE CountRows(_, _)
CountRows(p, C) ==
    IF C = {} THEN 0
    ELSE LET c == CHOOSE x \in C : TRUE IN p[c] + CountRows(p, C \ {c})

\* _split_by_context: the two partitions, which may share rows.
RestRows == {c \in Contexts : c.sleep_status > 0}
ActiveRows == {c \in Contexts : c.is_sport \/ c.sleep_status = 0}

ContextRows(name) == IF name = "rest" THEN RestRows ELSE ActiveRows

\* A gate that also turns away a partition of exactly the minimum size.
BelowMinimum_OrEqual(n) == n <= MIN_SAMPLES_PER_CONTEXT

\* len(context_data) < self.MIN_SAMPLES_PER_CONTEXT
BelowMinimum(n) == n < MIN_SAMPLES_PER_CONTEXT

\* The kinds of model fit_pchip_from_binned can return for a context: pchip, or
\* isotonic when fewer than MIN_POINTS_FOR_PCHIP knots remain.
PchipFitKinds == {ModelKind_PCHIP, ModelKind_ISOTONIC}

\* ModelFitter.MIN_POINTS_FOR_PCHIP
MIN_POINTS_FOR_PCHIP == 3

\* The kinds fit_pchip_from_binned can return on n rows: the largest x is in no
\* bin, so MIN_POINTS_FOR_PCHIP knots take more rows than that.
PchipFitKindsFor(n) ==
    IF n > MIN_POINTS_FOR_PCHIP THEN PchipFitKinds ELSE {ModelKind_ISOTONIC}

ModelMeta(kind, context, n) == [kind |-> kind, context |-> context, n |-> n]

\* The entries _train_context_model and _apply_global_fallback store for a context.
StoreResults(res, context, n, model) ==
    [k \in DOMAIN res \cup {context \o "_metrics", context \o "_n", context \o "_model"} |->
        IF k = context \o "_metrics" THEN "metrics"
        ELSE IF k = context \o "_n" THEN n
        ELSE IF k = context \o "_model" THEN model
        ELSE res[k]]

\* A selection that asks for the active model before the rest model.
PredictForRow_ActiveFirst(row, models) ==
    IF "active" \in DOMAIN models THEN "active"
    ELSE IF "rest" \in DOMAIN models /\ row.sleep_status # 0 /\ row.sleep_status > 0
    THEN "rest"
    ELSE IF "rest" \in DOMAIN models THEN "rest"
    ELSE "ValueError"

\* predict_for_row: the context of the model applied to the row.
PredictForRow(row, models) ==
    IF "rest" \in DOMAIN models /\ row.sleep_status # 0 /\ row.sleep_status > 0
    THEN "rest"
    ELSE IF "active" \in DOMAIN models THEN "active"
    ELSE IF "rest" \in DOMAIN models THEN "rest"
    ELSE "ValueError"

\* A prediction step that never falls back to a global model.
NeedsGlobalFallback_Never(models) == FALSE

\* A fallback taken as soon as one of the two contexts has no model.
NeedsGlobalFallback_AnyMissing(models) == DOMAIN models # {"rest", "active"}

\* if not context_models
NeedsGlobalFallback(models) == DOMAIN models = {}

NotPredicted == [c \in Contexts |-> "none"]

TrInit ==
    /\ tr_pc = "build"
    /\ tr_error = "none"
    /\ model_kind \in ModelKindChoices
    /\ pairs \in [Contexts -> PairCounts]
    /\ context_models = <<>>
    /\ results = <<>>
    /\ fit_calls = <<>>
    /\ y_hat = NotPredicted
    /\ export_data = <<>>

\* An emptiness test that lets every frame through.
PairsEmpty_Never(p) == FALSE

\* pairs.empty
PairsEmpty(p) == CountRows(p, Contexts) = 0

\* build_pairs returned; an empty frame ends the run.
TrBuildPairs ==
    /\ UNCHANGED notTr
    /\ tr_pc = "build" /\ tr_error = "none"
    /\ IF PairsEmpty(pairs)
       THEN tr_error' = "RuntimeError: No paired minutes after filtering."
            /\ UNCHANGED tr_pc
       ELSE tr_pc' = "rest" /\ UNCHANGED tr_error
    /\ UNCHANGED <<model_kind, pairs, context_models, results, fit_calls, y_hat,
                   export_data>>

\* _train_context_model(context_data, name, results) and the caller's
\* "if model: context_models[name] = model".
TrainContextModel(name, next_pc) ==
    LET n == CountRows(pairs, ContextRows(name)) IN
    IF BelowMinimum(n)
    THEN /\ tr_pc' = next_pc
         /\ UNCHANGED <<tr_error, context_models, results, fit_calls>>
    ELSE IF model_kind = ModelKind_PCHIP
    THEN \E kind \in PchipFitKindsFor(n) :
            /\ fit_calls' = Append(fit_calls, [fitter |-> "fit_pchip_from_binned",
                                               context |-> name, n |-> n])
            /\ results' = StoreResults(results, name, n, ModelMeta(kind, name, n))
            /\ context_models' = [c \in DOMAIN context_models \cup {name} |->
                                    IF c = name THEN ModelMeta(kind, name, n)
                                    ELSE context_models[c]]
            /\ tr_pc' = next_pc
            /\ UNCHANGED tr_error
    ELSE IF model_kind = ModelKind_ISOTONIC
    THEN /\ fit_calls' = Append(fit_calls, [fitter |-> "fit_isotonic",
                                            context |-> name, n |-> n])
         /\ results' = StoreResults(results, name, n,
                                    ModelMeta(ModelKind_ISOTONIC, name, n))
         /\ context_models' = [c \in DOMAIN context_models \cup {name} |->
                                 IF c = name THEN ModelMeta(ModelKind_ISOTONIC, name, n)
                                 ELSE context_models[c]]
         /\ tr_pc' = next_pc
         /\ UNCHANGED tr_error
    ELSE /\ tr_error' = "ValueError: Unknown model kind"
         /\ UNCHANGED <<tr_pc, context_models, results, fit_calls>>

TrTrainRest ==
    /\ UNCHANGED notTr
    /\ tr_pc = "rest" /\ tr_error = "none"
    /\ TrainContextModel("rest", "active")
    /\ UNCHANGED <<model_kind, pairs, y_hat, export_data>>

TrTrainActive ==
    /\ UNCHANGED notTr
    /\ tr_pc = "active" /\ tr_error = "none"
    /\ TrainContextModel("active", "apply")
    /\ UNCHANGED <<model_kind, pairs, y_hat, export_data>>

\* _apply_global_fallback
TrApplyGlobal ==
    /\ UNCHANGED notTr
    /\ tr_pc = "apply" /\ tr_error = "none"
    /\ NeedsGlobalFallback(context_models)
    /\ LET n == CountRows(pairs, Contexts) IN
       \E kind \in PchipFitKindsFor(n) :
          /\ fit_calls' = Append(fit_calls, [fitter |-> "fit_pchip_from_binned",
                                             context |-> "global", n |-> n])
          /\ results' = StoreResults(results, "global", n, ModelMeta(kind, "global", n))
    /\ y_hat' = [c \in Contexts |-> IF pairs[c] > 0 THEN "global" ELSE "none"]
    /\ tr_pc' = "export"
    /\ UNCHANGED <<tr_error, model_kind, pairs, context_models, export_data>>

\* _apply_contextual_predictions with at least one context model
TrApplyContextual ==
    /\ UNCHANGED notTr
    /\ tr_pc = "apply" /\ tr_error = "none"
    /\ ~NeedsGlobalFallback(context_models)
    /\ LET chosen == [c \in Contexts |->
                        IF pairs[c] > 0 THEN PredictForRow(c, context_models)
                        ELSE "none"]
       IN  IF \E c \in Contexts : chosen[c] = "ValueError"
           THEN /\ tr_error' = "ValueError: No suitable model available for prediction"
                /\ UNCHANGED <<tr_pc, y_hat, results>>
           ELSE /\ y_hat' = chosen
                /\ results' = [k \in DOMAIN results \cup {"all_metrics", "all_n"} |->
                                 IF k = "all_metrics" THEN "metrics"
                                 ELSE IF k = "all_n" THEN CountRows(pairs, Contexts)
                                 ELSE results[k]]
                /\ tr_pc' = "export"
                /\ UNCHANGED tr_error
    /\ UNCHANGED <<model_kind, pairs, context_models, fit_calls, export_data>>

\* _prepare_export_data, and train_and_apply returns
TrExport ==
    /\ UNCHANGED notTr
    /\ tr_pc = "export" /\ tr_error = "none"
    /\ export_data' = [chosen_models |-> context_models, metrics |-> results]
    /\ tr_pc' = "done"
    /\ UNCHANGED <<tr_error, model_kind, pairs, context_models, results, fit_calls,
                   y_hat>>

TrNext ==
    \/ TrBuildPairs \/ TrTrainRest \/ TrTrainActive
    \/ TrApplyGlobal \/ TrApplyContextual \/ TrExport

-----------------------------------------------------------------------------
(* Model fitter and model predictor.                                         *)
(*                                                                           *)
(* Medians and isotonic block means are quotients by at most MaxPoints, so   *)
(* knots and predictions are kept as integers in units of 1 / KnotScale.     *)
(* A prediction is [lo, hi, den]: the value lies in [lo / den, hi / den], in *)
(* those units, and lo = hi when it is known exactly.                        *)

DEFAULT_CLIP_LO == 35
DEFAULT_CLIP_HI == 220
DEFAULT_NUM_BINS == 15

RECURSIVE Gcd(_, _)
Gcd(a, b) == IF b = 0 THEN a ELSE Gcd(b, a % b)

RECURSIVE LcmUpTo(_)
LcmUpTo(n) == IF n <= 1 THEN 1 ELSE (LcmUpTo(n - 1) * n) \div Gcd(LcmUpTo(n - 1), n)

KnotScale == LcmUpTo(MaxPoints)

\* The inputs: every non-empty multiset of at most MaxPoints points of PointList.
TrainingSets ==
    {[i \in 1..Len(idx) |-> PointList[idx[i]]] :
        idx \in {s \in UNION {[1..n -> 1..Len(PointList)] : n \in 1..MaxPoints} :
                    \A i \in 1..(Len(s) - 1) : s[i] <= s[i + 1]}}

\* Insertion of v into the ascending sequence s.
RECURSIVE InsertInt(_, _)
InsertInt(s, v) ==
    IF s = <<>> THEN <<v>>
    ELSE IF v < Head(s) THEN <<v>> \o s
    ELSE <<Head(s)>> \o InsertInt(Tail(s), v)

RECURSIVE SortInts(_)
SortInts(s) == IF s = <<>> THEN <<>> ELSE InsertInt(SortInts(Tail(s)), Head(s))

\* np.median, in units of 1 / KnotScale
Median(s) ==
    LET sorted == SortInts(s)
        n == Len(sorted)
    IN  IF n % 2 = 1 THEN KnotScale * sorted[(n + 1) \div 2]
        ELSE (KnotScale * (sorted[n \div 2] + sorted[n \div 2 + 1])) \div 2

\* np.digitize(x, np.linspace(x_min, x_max, num_bins + 1)) - 1: the bin whose
\* edges satisfy bins[i] <= x < bins[i + 1], and num_bins for x >= x_max.
BinIndex(x, x_min, x_max) ==
    IF x >= x_max THEN DEFAULT_NUM_BINS
    ELSE ((x - x_min) * DEFAULT_NUM_BINS) \div (x_max - x_min)

\* The loop of BinnedMedianFitter.fit from bin_idx on.
RECURSIVE BinnedMedianLoop(_, _, _, _)
BinnedMedianLoop(pts, bin_idx, x_min, x_max) ==
    IF bin_idx > DEFAULT_NUM_BINS - 1 THEN <<>>
    ELSE LET InBin(p) == BinIndex(p.x, x_min, x_max) = bin_idx
             members == SelectSeq(pts, InBin)
             here == IF members = <<>> THEN <<>>
                     ELSE <<[x |-> Median([i \in 1..Len(members) |-> members[i].x]),
                             y |-> Median([i \in 1..Len(members) |-> members[i].y])]>>
         IN  here \o BinnedMedianLoop(pts, bin_idx + 1, x_min, x_max)

SetMax(S) == CHOOSE m \in S : \A o \in S : m >= o

BinnedMedianFit(pts) ==
    LET xs == {pts[i].x : i \in 1..Len(pts)}
    IN  BinnedMedianLoop(pts, 0, SetMin(xs), SetMax(xs))

\* Every row kept, equal x included.
UniqueByX_KeepAll(rows) == rows

\* np.unique(x, return_index=True) applied to both columns: the rows of the
\* first occurrence of every x, in ascending order of x.
UniqueByX(rows) ==
    LET xs == SortedSeq({rows[i].x : i \in 1..Len(rows)})
        First(x) == CHOOSE i \in 1..Len(rows) :
                        rows[i].x = x /\ \A j \in 1..(i - 1) : rows[j].x # x
    IN  [k \in 1..Len(xs) |-> rows[First(xs[k])]]

\* x[np.argsort(x)], y[np.argsort(x)]
RECURSIVE InsertByX(_, _)
InsertByX(s, p) ==
    IF s = <<>> THEN <<p>>
    ELSE IF p.x < Head(s).x THEN <<p>> \o s
    ELSE <<Head(s)>> \o InsertByX(Tail(s), p)

RECURSIVE SortByX(_)
SortByX(pts) == IF pts = <<>> THEN <<>> ELSE InsertByX(SortByX(Tail(pts)), Head(pts))

\* IsotonicRegression: one block [sum, weight, first x, last x] per distinct x.
RECURSIVE SumY(_, _)
SumY(pts, x) ==
    IF pts = <<>> THEN 0
    ELSE (IF Head(pts).x = x THEN Head(pts).y ELSE 0) + SumY(Tail(pts), x)

RECURSIVE CountX(_, _)
CountX(pts, x) ==
    IF pts = <<>> THEN 0
    ELSE (IF Head(pts).x = x THEN 1 ELSE 0) + CountX(Tail(pts), x)

UniqueBlocks(sorted) ==
    LET xs == SortedSeq({sorted[i].x : i \in 1..Len(sorted)})
    IN  [k \in 1..Len(xs) |->
            [sum |-> SumY(sorted, xs[k]), weight |-> CountX(sorted, xs[k]),
             from |-> xs[k], to |-> xs[k]]]

\* Pool adjacent violators: the block b joins the stack of pooled blocks.
RECURSIVE PoolInto(_, _)
PoolInto(stack, b) ==
    IF stack = <<>> THEN <<b>>
    ELSE LET top == stack[Len(stack)]
         IN  IF top.sum * b.weight > b.sum * top.weight
             THEN PoolInto(SubSeq(stack, 1, Len(stack) - 1),
                           [sum |-> top.sum + b.sum, weight |-> top.weight + b.weight,
                            from |-> top.from, to |-> b.to])
             ELSE Append(stack, b)

RECURSIVE PoolAdjacentViolators(_, _)
PoolAdjacentViolators(stack, blocks) ==
    IF blocks = <<>> THEN stack
    ELSE PoolAdjacentViolators(PoolInto(stack, Head(blocks)), Tail(blocks))

\* isotonic_reg.fit_transform(x_sorted, y_sorted): the fitted value at every
\* sorted x, in units of 1 / KnotScale.
IsotonicFitTransform(sorted) ==
    LET pooled == PoolAdjacentViolators(<<>>, UniqueBlocks(sorted))
        BlockOf(x) == CHOOSE k \in 1..Len(pooled) : pooled[k].from <= x /\ x <= pooled[k].to
    IN  [i \in 1..Len(sorted) |->
            (KnotScale * pooled[BlockOf(sorted[i].x)].sum)
                \div pooled[BlockOf(sorted[i].x)].weight]

Knots(kind, context, rows) ==
    [kind |-> kind, context |-> context,
     x_knots |-> [i \in 1..Len(rows) |-> rows[i].x],
     y_knots |-> [i \in 1..Len(rows) |-> rows[i].y],
     clip_lo |-> DEFAULT_CLIP_LO, clip_hi |-> DEFAULT_CLIP_HI]

FitIsotonic(pts, context) ==
    LET sorted == SortByX(pts)
        y_fitted == IsotonicFitTransform(sorted)
        rows == [i \in 1..Len(sorted) |-> [x |-> KnotScale * sorted[i].x, y |-> y_fitted[i]]]
    IN  Knots(ModelKind_ISOTONIC, context, UniqueByX(rows))

\* A piecewise-monotone fit that is content with one knot fewer.
FitPchipFromBinned_OneKnotFewer(pts, context) ==
    LET binned == UniqueByX(BinnedMedianFit(pts))
    IN  IF Len(binned) < MIN_POINTS_FOR_PCHIP - 1 THEN FitIsotonic(pts, context)
        ELSE Knots(ModelKind_PCHIP, context, binned)

FitPchipFromBinned(pts, context) ==
    LET binned == UniqueByX(BinnedMedianFit(pts))
    IN  IF Len(binned) < MIN_POINTS_FOR_PCHIP THEN FitIsotonic(pts, context)
        ELSE Knots(ModelKind_PCHIP, context, binned)

\* np.clip
Clip(v, lo, hi) == Min(Max(v, lo), hi)

Exactly(v) == [lo |-> v, hi |-> v, den |-> 1]

\* The knot interval [x_knots[k], x_knots[k + 1]] that holds x.
KnotInterval(x, x_knots) ==
    CHOOSE k \in 1..(Len(x_knots) - 1) :
        /\ x <= x_knots[k + 1]
        /\ \A j \in 1..(k - 1) : x > x_knots[j + 1]

\* np.interp(x, x_knots, y_knots) for x inside the knots
Interp(x, x_knots, y_knots) ==
    IF \E k \in 1..Len(x_knots) : x_knots[k] = x
    THEN Exactly(y_knots[CHOOSE k \in 1..Len(x_knots) : x_knots[k] = x])
    ELSE LET k == KnotInterval(x, x_knots)
             dx == x_knots[k + 1] - x_knots[k]
             num == y_knots[k] * dx + (y_knots[k + 1] - y_knots[k]) * (x - x_knots[k])
         IN  [lo |-> num, hi |-> num, den |-> dx]

\* PchipInterpolator(x_knots, y_knots)(x) for x inside the knots: the knot's y at a
\* knot; between two knots the interpolant is monotone, so the value lies
\* between their two y values.
Pchip(x, x_knots, y_knots) ==
    IF \E k \in 1..Len(x_knots) : x_knots[k] = x
    THEN Exactly(y_knots[CHOOSE k \in 1..Len(x_knots) : x_knots[k] = x])
    ELSE LET k == KnotInterval(x, x_knots)
         IN  [lo |-> Min(y_knots[k], y_knots[k + 1]),
              hi |-> Max(y_knots[k], y_knots[k + 1]), den |-> 1]

\* ModelPredictor.apply_model on one x, given in units of 1 / KnotScale
ApplyModel(meta, x) ==
    LET x_clipped == Clip(x, meta.x_knots[1], meta.x_knots[Len(meta.x_knots)])
    IN  IF meta.kind = ModelKind_ISOTONIC
        THEN Interp(x_clipped, meta.x_knots, meta.y_knots)
        ELSE LET p == Pchip(x_clipped, meta.x_knots, meta.y_knots)
             IN  [lo |-> Clip(p.lo, meta.clip_lo * KnotScale, meta.clip_hi * KnotScale),
                  hi |-> Clip(p.hi, meta.clip_lo * KnotScale, meta.clip_hi * KnotScale),
                  den |-> 1]

FtInit ==
    /\ ft_pc = "input"
    /\ xy \in TrainingSets
    /\ fitter = ""
    /\ model_meta = <<>>
    /\ x_query = 0
    /\ y_predicted = <<>>

FtFitIsotonic ==
    /\ UNCHANGED notFt
    /\ ft_pc = "input"
    /\ fitter' = "fit_isotonic"
    /\ model_meta' = FitIsotonic(xy, "global")
    /\ ft_pc' = "fitted"
    /\ UNCHANGED <<xy, x_query, y_predicted>>

FtFitPchipFromBinned ==
    /\ UNCHANGED notFt
    /\ ft_pc = "input"
    /\ fitter' = "fit_pchip_from_binned"
    /\ model_meta' = FitPchipFromBinned(xy, "global")
    /\ ft_pc' = "fitted"
    /\ UNCHANGED <<xy, x_query, y_predicted>>

FtApplyModel ==
    /\ UNCHANGED notFt
    /\ ft_pc \in {"fitted", "predicted"}
    /\ \E x \in QueryXs :
          /\ x_query' = x
          /\ y_predicted' = ApplyModel(model_meta, KnotScale * x)
    /\ ft_pc' = "predicted"
    /\ UNCHANGED <<xy, fitter, model_meta>>

FtNext == FtFitIsotonic \/ FtFitPchipFromBinned \/ FtApplyModel

-----------------------------------------------------------------------------
(* Metrics calculator and heart-rate zone classifier.                        *)
(*                                                                           *)
(* A mean is kept as the pair <<sum, n>>.                                    *)

HeartRateZone_VERY_LOW == "<60"
HeartRateZone_LOW == "60-90"
HeartRateZone_MODERATE == "90-120"
HeartRateZone_HIGH == ">120"

\* The rows a caller passes: the scan values around every zone boundary, with
\* references and predictions that fall in other zones than the scan value.
MetricScanBpms == {59, 60, 89, 90, 119, 120}
MetricT10Bpms == {50, 130}
MetricYHats == {70, 100}

MetricRows == [scan_bpm : MetricScanBpms, t10_bpm : MetricT10Bpms, y_hat : MetricYHats]

\* A classifier whose zones are closed on the right.
Classify_RightClosed(heart_rate) ==
    IF heart_rate <= 60 THEN HeartRateZone_VERY_LOW
    ELSE IF heart_rate <= 90 THEN HeartRateZone_LOW
    ELSE IF heart_rate <= 120 THEN HeartRateZone_MODERATE
    ELSE HeartRateZone_HIGH

\* HeartRateZoneClassifier.classify
Classify(heart_rate) ==
    IF heart_rate < 60 THEN HeartRateZone_VERY_LOW
    ELSE IF heart_rate < 90 THEN HeartRateZone_LOW
    ELSE IF heart_rate < 120 THEN HeartRateZone_MODERATE
    ELSE HeartRateZone_HIGH

Abs(v) == IF v < 0 THEN -v ELSE v

\* The group keys of groupby('zone') in the order it sorts them (as strings).
GroupKeyOrder ==
    <<HeartRateZone_LOW, HeartRateZone_MODERATE, HeartRateZone_VERY_LOW,
      HeartRateZone_HIGH>>

RECURSIVE SumColumn(_, _)
SumColumn(rows, col) ==
    IF rows = <<>> THEN 0 ELSE Head(rows)[col] + SumColumn(Tail(rows), col)

\* groupby('zone').agg(n = size, MAE = mean of abs_err, bias = mean of bias)
\* from the k-th group key on: one row per key that has members.
RECURSIVE GroupByZone(_, _)
GroupByZone(rows, k) ==
    IF k > Len(GroupKeyOrder) THEN <<>>
    ELSE LET InGroup(r) == r.zone = GroupKeyOrder[k]
             members == SelectSeq(rows, InGroup)
             here == IF members = <<>> THEN <<>>
                     ELSE <<[zone |-> GroupKeyOrder[k],
                             n |-> Len(members),
                             MAE |-> <<SumColumn(members, "abs_err"), Len(members)>>,
                             bias |-> <<SumColumn(members, "bias"), Len(members)>>]>>
         IN  here \o GroupByZone(rows, k + 1)

McInit ==
    /\ mc_pc = "input"
    /\ mc_df \in UNION {[1..n -> MetricRows] : n \in 1..MaxRecords}
    /\ df_copy = <<>>
    /\ metrics = <<>>

\* df_copy with its abs_err, bias and zone columns
McAddColumns ==
    /\ UNCHANGED notMc
    /\ mc_pc = "input"
    /\ df_copy' = [i \in 1..Len(mc_df) |->
                     [scan_bpm |-> mc_df[i].scan_bpm,
                      t10_bpm |-> mc_df[i].t10_bpm,
                      y_hat |-> mc_df[i].y_hat,
                      abs_err |-> Abs(mc_df[i].t10_bpm - mc_df[i].y_hat),
                      bias |-> mc_df[i].t10_bpm - mc_df[i].y_hat,
                      zone |-> Classify(mc_df[i].scan_bpm)]]
    /\ mc_pc' = "columns"
    /\ UNCHANGED <<mc_df, metrics>>

\* the groupby, and calculate_metrics returns
McGroupBy ==
    /\ UNCHANGED notMc
    /\ mc_pc = "columns"
    /\ metrics' = GroupByZone(df_copy, 1)
    /\ mc_pc' = "done"
    /\ UNCHANGED <<mc_df, df_copy>>

McNext == McAddColumns \/ McGroupBy

-----------------------------------------------------------------------------
(* Each component is checked on its own; the others stay idle.               *)

RsIdle ==
    /\ rs_pc = "idle"
    /\ freq = 0
    /\ min_coverage_s = 0
    /\ current_time = 0
    /\ rs_left = 0
    /\ rs_cells = 0
    /\ window_data = <<>>
    /\ last_segment = NoSegment
    /\ contributed = <<>>
    /\ result_df = <<>>

AnIdle ==
    /\ an_pc = "idle"
    /\ an_freq = 0
    /\ an_window = 0
    /\ df_sleep = <<>>
    /\ an_k = 0
    /\ best_status = 0
    /\ max_overlap = 0
    /\ sleep_status = 0

PbIdle ==
    /\ pb_pc = "idle"
    /\ bin_size = 0
    /\ sw_resampled = <<>>
    /\ df_hr = <<>>
    /\ t10_resampled = <<>>
    /\ paired_df = <<>>

TrIdle ==
    /\ tr_pc = "idle"
    /\ tr_error = "none"
    /\ model_kind = ""
    /\ pairs = <<>>
    /\ context_models = <<>>
    /\ results = <<>>
    /\ fit_calls = <<>>
    /\ y_hat = <<>>
    /\ export_data = <<>>

FtIdle ==
    /\ ft_pc = "idle"
    /\ xy = <<>>
    /\ fitter = ""
    /\ model_meta = <<>>
    /\ x_query = 0
    /\ y_predicted = <<>>

McIdle ==
    /\ mc_pc = "idle"
    /\ mc_df = <<>>
    /\ df_copy = <<>>
    /\ metrics = <<>>

InitResample == RsInit /\ AnIdle /\ PbIdle /\ TrIdle /\ FtIdle /\ McIdle

InitAnnotate == AnInit /\ RsIdle /\ PbIdle /\ TrIdle /\ FtIdle /\ McIdle

InitPairs == PbInit /\ RsIdle /\ AnIdle /\ TrIdle /\ FtIdle /\ McIdle

InitTrain == TrInit /\ RsIdle /\ AnIdle /\ PbIdle /\ FtIdle /\ McIdle

InitFit == FtInit /\ RsIdle /\ AnIdle /\ PbIdle /\ TrIdle /\ McIdle

SpecResample == InitResample /\ [][RsNext]_vars

SpecAnnotate == InitAnnotate /\ [][AnNext]_vars

SpecPairs == InitPairs /\ [][PbNext]_vars

SpecTrain == InitTrain /\ [][TrNext]_vars

SpecFit == InitFit /\ [][FtNext]_vars

InitMetrics == McInit /\ RsIdle /\ AnIdle /\ PbIdle /\ TrIdle /\ FtIdle

SpecMetrics == InitMetrics /\ [][McNext]_vars

-----------------------------------------------------------------------------
(* Properties of the overlap resampler, under SpecResample.                  *)

RECURSIVE SumOverlaps(_)
SumOverlaps(updates) ==
    IF updates = <<>> THEN 0 ELSE Head(updates)[2] + SumOverlaps(Tail(updates))

EmittedBins == {result_df[i].window_utc : i \in 1..Len(result_df)}

\* C1: the overlap seconds a segment of positive duration adds to the bins it
\* touches sum to the segment's duration, whatever its start instant.
C1_OverlapConserved ==
    last_segment # NoSegment =>
        SumOverlaps(last_segment.overlaps) = last_segment.duration * TicksPerSec

\* C2: once the resampler has returned, a bin is in the output if and only if
\* it is a key of the accumulation map (touched by a segment) whose coverage is
\* at least min(min_coverage_s, freq seconds); every emitted row carries the
\* accumulated coverage of its bin, and that coverage is never zero.
C2_EmittedIffCovered ==
    rs_pc = "done" =>
        /\ EmittedBins =
              {b \in DOMAIN window_data :
                  window_data[b].coverage >=
                      (IF min_coverage_s <= freq THEN min_coverage_s ELSE freq)
                          * TicksPerSec}
        /\ \A i \in 1..Len(result_df) :
              /\ result_df[i].scan_coverage_s > 0
              /\ result_df[i].scan_coverage_s =
                    window_data[result_df[i].window_utc].coverage
        /\ \A i \in 1..(Len(result_df) - 1) :
              result_df[i].window_utc < result_df[i + 1].window_utc

\* A run in which one touched bin is emitted with exactly the threshold's
\* coverage and another touched bin is dropped.
C2_Witness ==
    /\ rs_pc = "done"
    /\ min_coverage_s > 0
    /\ \E b \in EmittedBins :
          window_data[b].coverage = Min(min_coverage_s, freq) * TicksPerSec
    /\ \E b \in DOMAIN window_data : b \notin EmittedBins

-----------------------------------------------------------------------------
(* Properties of the context annotator, under SpecAnnotate.                  *)

\* The overlap of the bin with the k-th sleep interval, as the claim defines it.
BinOverlap(k) ==
    LET lo == IF an_window >= df_sleep[k].start_utc
              THEN an_window ELSE df_sleep[k].start_utc
        hi == IF an_window + Step(an_freq) <= df_sleep[k].end_utc
              THEN an_window + Step(an_freq) ELSE df_sleep[k].end_utc
    IN  IF hi > lo THEN hi - lo ELSE 0

GreatestOverlaps ==
    {k \in 1..Len(df_sleep) :
        /\ BinOverlap(k) > 0
        /\ \A j \in 1..Len(df_sleep) : BinOverlap(j) <= BinOverlap(k)}

\* C3: the status stored for a bin is that of the sleep interval of greatest
\* positive overlap with the bin, the first such interval in input order when
\* several tie, and 0 when no interval overlaps the bin.
C3_SleepStatusIsGreatestOverlap ==
    an_pc = "done" =>
        IF GreatestOverlaps = {} THEN sleep_status = 0
        ELSE sleep_status = df_sleep[SetMin(GreatestOverlaps)].status

\* Two intervals of different status tie for the greatest overlap.
C3_Witness ==
    /\ an_pc = "done"
    /\ Cardinality(GreatestOverlaps) = 2
    /\ df_sleep[1].status # df_sleep[2].status
    /\ sleep_status = df_sleep[1].status

-----------------------------------------------------------------------------
(* Properties of the data pair builder, under SpecPairs.                     *)

ScanBins == {sw_resampled[i].window_utc : i \in 1..Len(sw_resampled)}

ReferenceBins == {Floor(df_hr[i].time, bin_size) : i \in 1..Len(df_hr)}

SamplesIn(b) == {i \in 1..Len(df_hr) : Floor(df_hr[i].time, bin_size) = b}

RECURSIVE SumRates(_)
SumRates(I) ==
    IF I = {} THEN 0
    ELSE LET i == CHOOSE j \in I : TRUE IN df_hr[i].heartRate + SumRates(I \ {i})

ScanAt(b) == (CHOOSE i \in 1..Len(sw_resampled) : sw_resampled[i].window_utc = b)

\* scan_bpm and the mean of the reference samples of bin b both lie in [30, 230],
\* and the bin has at least one reference sample.
Plausible(b) ==
    LET scan == sw_resampled[ScanAt(b)].scan_bpm
        n == Cardinality(SamplesIn(b))
    IN  /\ 30 * scan[2] <= scan[1] /\ scan[1] <= 230 * scan[2]
        /\ 30 * n <= SumRates(SamplesIn(b)) /\ SumRates(SamplesIn(b)) <= 230 * n
        /\ n >= 1

ReturnedBins == {paired_df[i].window_utc : i \in 1..Len(paired_df)}

\* C4: the returned pairs are exactly the bins present in both the resampled
\* scan output and the reference aggregates whose scan_bpm and reference_bpm
\* lie in [30, 230] and whose aggregate counts at least one sample; each row
\* carries the scan_bpm and the reference mean of its bin.
C4_PairsArePlausibleJoin ==
    pb_pc = "done" =>
        /\ ReturnedBins = {b \in ScanBins \cap ReferenceBins : Plausible(b)}
        /\ \A i \in 1..Len(paired_df) :
              LET r == paired_df[i] IN
              /\ r.scan_bpm = sw_resampled[ScanAt(r.window_utc)].scan_bpm
              /\ r.t10_points = Cardinality(SamplesIn(r.window_utc))
              /\ r.t10_bpm = <<SumRates(SamplesIn(r.window_utc)), r.t10_points>>
        /\ \A i, j \in 1..Len(paired_df) : i < j =>
              paired_df[i].window_utc < paired_df[j].window_utc

\* One bin is returned with scan_bpm exactly 230, and the other bin, present
\* on both sides, is dropped by the range filter.
C4_Witness ==
    /\ pb_pc = "done"
    /\ Len(paired_df) = 1
    /\ paired_df[1].scan_bpm = <<460, 2>>
    /\ Cardinality(ScanBins \cap ReferenceBins) = 2

-----------------------------------------------------------------------------
(* Properties of the contextual model trainer, under SpecTrain.              *)

PartitionSize(name) == CountRows(pairs, IF name = "rest" THEN RestRows ELSE ActiveRows)

\* The training step of the context has returned to train_and_apply.
Trained(name) ==
    IF name = "rest" THEN tr_pc \in {"active", "apply", "export", "done"}
    ELSE tr_pc \in {"apply", "export", "done"}

ContextKeys(name) == {name \o "_metrics", name \o "_n", name \o "_model"}

FittedFor(name) == {i \in 1..Len(fit_calls) : fit_calls[i].context = name}

\* C5: a context whose partition has fewer than 30 pairs never has a model of
\* its own, is never fitted and has no entry in the metrics; a context whose
\* partition has 30 pairs or more has its model and its metrics as soon as its
\* training step has returned (with a kind the trainer does not know the step
\* raises instead of returning).
C5_MinimumSampleGating ==
    \A name \in {"rest", "active"} :
        /\ PartitionSize(name) < 30 =>
              /\ name \notin DOMAIN context_models
              /\ FittedFor(name) = {}
              /\ ContextKeys(name) \cap DOMAIN results = {}
        /\ (PartitionSize(name) >= 30 /\ Trained(name)) =>
              /\ name \in DOMAIN context_models
              /\ context_models[name].context = name
              /\ context_models[name].n = PartitionSize(name)
              /\ ContextKeys(name) \subseteq DOMAIN results

\* A finished run in which the rest partition has exactly 30 pairs and its
\* model, and the active partition has 29 pairs and none.
C5_Witness ==
    /\ tr_pc = "done"
    /\ PartitionSize("rest") = 30 /\ "rest" \in DOMAIN context_models
    /\ PartitionSize("active") = 29 /\ "active" \notin DOMAIN context_models

Predicted == tr_pc \in {"export", "done"}

\* C6: with at least one context model, every record is predicted with the rest
\* model if its sleep_status > 0 and a rest model exists, otherwise with the
\* active model if it exists, otherwise with the rest model; the prediction
\* step never fails.
C6_SelectionPriority ==
    /\ (tr_pc = "apply" /\ DOMAIN context_models # {}) => tr_error = "none"
    /\ (Predicted /\ DOMAIN context_models # {}) =>
          \A c \in Contexts : pairs[c] > 0 =>
              /\ (c.sleep_status > 0 /\ "rest" \in DOMAIN context_models)
                    => y_hat[c] = "rest"
              /\ (c.sleep_status <= 0 /\ "active" \in DOMAIN context_models)
                    => y_hat[c] = "active"
              /\ (c.sleep_status > 0 /\ "rest" \notin DOMAIN context_models)
                    => y_hat[c] = "active"
              /\ (c.sleep_status <= 0 /\ "active" \notin DOMAIN context_models)
                    => y_hat[c] = "rest"

\* A record with sleep_status = 2 is predicted with the active model, the only
\* model there is.
C6_Witness ==
    /\ tr_pc = "done"
    /\ DOMAIN context_models = {"active"}
    /\ \E c \in Contexts : c.sleep_status = 2 /\ pairs[c] > 0 /\ y_hat[c] = "active"

\* C7: when neither partition reaches the minimum, the prediction step fits one
\* model, with context 'global' and on all the pairs, and predicts every record
\* with it; a global model is never fitted while a context model exists.
C7_GlobalFallback ==
    /\ FittedFor("global") # {} =>
          /\ DOMAIN context_models = {}
          /\ PartitionSize("rest") < 30 /\ PartitionSize("active") < 30
    /\ (Predicted /\ PartitionSize("rest") < 30 /\ PartitionSize("active") < 30) =>
          /\ Len(fit_calls) = 1
          /\ fit_calls[1].context = "global"
          /\ fit_calls[1].n = CountRows(pairs, Contexts)
          /\ \A c \in Contexts : pairs[c] > 0 => y_hat[c] = "global"
    /\ (Predicted /\ DOMAIN context_models # {}) =>
          /\ FittedFor("global") = {}
          /\ \A c \in Contexts : y_hat[c] # "global"

\* A finished run of the global model over rest and active records together.
C7_Witness ==
    /\ tr_pc = "done"
    /\ FittedFor("global") # {}
    /\ CountRows(pairs, RestRows) > 0
    /\ CountRows(pairs, Contexts \ RestRows) > 0
    /\ \A c \in Contexts : pairs[c] > 0 => y_hat[c] = "global"

\* C10: a run whose model kind is neither pchip nor isotonic fits no model,
\* predicts no record and never returns a summary.
C10_UnknownKindAlwaysFails ==
    model_kind \notin {ModelKind_PCHIP, ModelKind_ISOTONIC} =>
        /\ fit_calls = <<>>
        /\ y_hat = NotPredicted
        /\ tr_pc # "done"

NoDataError == "RuntimeError: No paired minutes after filtering."

NoPairs == \A c \in Contexts : pairs[c] = 0

\* The run has raised: train_and_apply returns nothing to its caller.
ReturnsNothing ==
    /\ tr_pc # "done"
    /\ export_data = <<>>
    /\ y_hat = NotPredicted

\* C11: with an empty pair set the step that follows build_pairs raises the
\* "no data" error, no model is ever fitted and the run never goes on to
\* training; and whenever an error has been raised (no data, unknown model
\* kind, no suitable model) the run returns neither a predicted dataset nor a
\* summary.
C11_FailureReturnsNothing ==
    /\ [](NoPairs =>
            /\ tr_pc = "build"
            /\ fit_calls = <<>>
            /\ tr_error \in {"none", NoDataError})
    /\ [](tr_error # "none" => ReturnsNothing)
    /\ [][(NoPairs /\ tr_pc = "build" /\ tr_error = "none")
            => tr_error' = NoDataError]_vars

\* The run over an empty pair set has raised the "no data" error.
C11_Witness ==
    /\ NoPairs
    /\ tr_error = NoDataError
    /\ ReturnsNothing

\* The models the run has fitted so far, as stored in the metrics.
FittedModels ==
    {results[k] : k \in DOMAIN results \cap {"rest_model", "active_model", "global_model"}}

\* C12: every model fitted in a run whose caller selected isotonic (rest,
\* active or global) has kind isotonic, and a model of kind pchip is only
\* fitted in a run whose caller selected pchip.
C12_KindIsCallersChoice ==
    \A m \in FittedModels :
        /\ model_kind = ModelKind_ISOTONIC => m.kind = ModelKind_ISOTONIC
        /\ m.kind = ModelKind_PCHIP => model_kind = ModelKind_PCHIP

\* The contexts whose model predicted at least one record of the run.
UsedContexts == {y_hat[c] : c \in {r \in Contexts : pairs[r] > 0}}

\* C13: in the summary of a run that has returned, chosen_models has exactly
\* the contexts (rest, active or global) whose model predicted some record,
\* each mapped to the model fitted for it; it is not empty, since every run
\* that returns has predicted its records.
C13_ChosenModelsAreTheModelsUsed ==
    tr_pc = "done" =>
        /\ DOMAIN export_data.chosen_models # {}
        /\ DOMAIN export_data.chosen_models = UsedContexts
        /\ \A ctx \in UsedContexts :
              export_data.chosen_models[ctx] = results[ctx \o "_model"]

NoSuitableModelError == "ValueError: No suitable model available for prediction"

\* C14: a run over a non-empty pair set with a supported model kind never
\* raises the "no suitable model" error, whatever the sizes of the partitions
\* and the sleep_status of the records: once the prediction step has run,
\* every record has been predicted with the rest, the active or the global
\* model.
C14_SelectionNeverExhausted ==
    (~NoPairs /\ model_kind \in {ModelKind_PCHIP, ModelKind_ISOTONIC}) =>
        /\ tr_error # NoSuitableModelError
        /\ Predicted =>
              \A c \in Contexts :
                  pairs[c] > 0 => y_hat[c] \in {"rest", "active", "global"}

\* A finished run with records asleep and awake and the rest model the only
\* one, so that the awake records fall through to it.
C14_Witness ==
    /\ tr_pc = "done"
    /\ model_kind = ModelKind_ISOTONIC
    /\ DOMAIN context_models = {"rest"}
    /\ \E c \in Contexts : c.sleep_status = 0 /\ pairs[c] > 0 /\ y_hat[c] = "rest"
    /\ \E c \in Contexts : c.sleep_status > 0 /\ pairs[c] > 0 /\ y_hat[c] = "rest"

-----------------------------------------------------------------------------
(* Properties of the model fitter and predictor, under SpecFit.              *)

TrainingXs == {xy[i].x : i \in 1..Len(xy)}

\* The x-bin of x among DEFAULT_NUM_BINS equal-width bins spanning
\* [min(x), max(x)], the last of which holds max(x).
XBin(x) ==
    LET lo == SetMin(TrainingXs)
        hi == SetMax(TrainingXs)
    IN  IF x = hi THEN DEFAULT_NUM_BINS - 1
        ELSE ((x - lo) * DEFAULT_NUM_BINS) \div (hi - lo)

\* The training x values are distinct and fall one per x-bin, and the y values
\* lie within the clip bounds.
OnePerBin ==
    /\ \A i, j \in 1..Len(xy) : i # j => XBin(xy[i].x) # XBin(xy[j].x)
    /\ \A i \in 1..Len(xy) : DEFAULT_CLIP_LO <= xy[i].y /\ xy[i].y <= DEFAULT_CLIP_HI

\* C8: a piecewise-monotone fit on points of distinct x, one per x-bin and with
\* y within the clip bounds, predicts at every training x, the smallest and the
\* largest included, the y it was trained on.
C8_RoundTripThroughKnots ==
    (ft_pc = "predicted" /\ fitter = "fit_pchip_from_binned" /\ OnePerBin) =>
        \A i \in 1..Len(xy) :
            xy[i].x = x_query =>
                /\ y_predicted.lo = KnotScale * xy[i].y * y_predicted.den
                /\ y_predicted.hi = KnotScale * xy[i].y * y_predicted.den

\* C9: whatever the kind of the fitted model and whatever x, the value
\* apply_model returns lies within [clip_lo, clip_hi] of the model.
C9_PredictionWithinClipBounds ==
    ft_pc = "predicted" =>
        /\ model_meta.clip_lo * KnotScale * y_predicted.den <= y_predicted.lo
        /\ y_predicted.hi <= model_meta.clip_hi * KnotScale * y_predicted.den

Fitted == ft_pc \in {"fitted", "predicted"}

\* C15: every model the fitter returns on a non-empty input, through
\* fit_isotonic or through fit_pchip_from_binned (with or without its fall
\* back to the isotonic path), has as many y knots as x knots, at least one
\* knot, and strictly increasing x knots.
C15_KnotsWellFormed ==
    Fitted =>
        /\ Len(model_meta.x_knots) = Len(model_meta.y_knots)
        /\ Len(model_meta.x_knots) >= 1
        /\ \A i \in 1..(Len(model_meta.x_knots) - 1) :
              model_meta.x_knots[i] < model_meta.x_knots[i + 1]

\* A piecewise-monotone fit on rows with repeated x that fell back to the
\* isotonic path and kept one knot per distinct x.
C15_Witness ==
    /\ Fitted
    /\ fitter = "fit_pchip_from_binned"
    /\ model_meta.kind = ModelKind_ISOTONIC
    /\ Len(xy) = 3
    /\ Len(model_meta.x_knots) = 2


\* The bins of BinnedMedianFitter.fit that hold a training x: those of the x
\* below the largest, which is on the last edge and in no bin.
OccupiedBins == {XBin(x) : x \in {v \in TrainingXs : v < SetMax(TrainingXs)}}

\* C16: fit_pchip_from_binned returns a model of kind pchip exactly when the
\* binning leaves three knots or more; with fewer (all x equal included) it
\* returns the model fit_isotonic gives on the raw rows, with the same context
\* and clip bounds.
C16_FallbackBelowThreeKnots ==
    (Fitted /\ fitter = "fit_pchip_from_binned") =>
        /\ model_meta.kind = ModelKind_PCHIP <=> Cardinality(OccupiedBins) >= 3
        /\ Cardinality(OccupiedBins) >= 3 =>
              Len(model_meta.x_knots) = Cardinality(OccupiedBins)
        /\ Cardinality(OccupiedBins) < 3 =>
              /\ model_meta = FitIsotonic(xy, "global")
              /\ model_meta.kind = ModelKind_ISOTONIC
              /\ model_meta.clip_lo = DEFAULT_CLIP_LO
              /\ model_meta.clip_hi = DEFAULT_CLIP_HI

\* A piecewise-monotone fit on rows that all have the same x has returned the
\* isotonic model, and one on rows of two occupied bins as well.
C16_Witness ==
    /\ Fitted
    /\ fitter = "fit_pchip_from_binned"
    /\ model_meta.kind = ModelKind_ISOTONIC
    /\ Len(xy) >= 2
    /\ \/ Cardinality(TrainingXs) = 1
       \/ Cardinality(OccupiedBins) = 2


-----------------------------------------------------------------------------
(* Properties of the metrics calculator, under SpecMetrics.                  *)

\* The records whose scan value lies in [lo, hi).
ScanWithin(lo, hi) ==
    {i \in 1..Len(mc_df) : lo <= mc_df[i].scan_bpm /\ mc_df[i].scan_bpm < hi}

\* The records of each zone, by the left-closed boundaries 60, 90 and 120 of
\* the scan value.
ZoneMembers ==
    [z \in {"<60", "60-90", "90-120", ">120"} |->
        IF z = "<60" THEN ScanWithin(0, 60)
        ELSE IF z = "60-90" THEN ScanWithin(60, 90)
        ELSE IF z = "90-120" THEN ScanWithin(90, 120)
        ELSE ScanWithin(120, 1000)]

MetricRowsOf(z) == {k \in 1..Len(metrics) : metrics[k].zone = z}

\* C17: the rows calculate_metrics returns have one row for every zone that
\* holds a record by its scan value (59 in '<60', 60 in '60-90', 90 in
\* '90-120', 120 in '>120'), whose n is the number of those records, and no
\* row for a zone that holds none; the n of the rows sum to the number of
\* records and every n is positive.
C17_ZoneCountsPartitionRecords ==
    mc_pc = "done" =>
        /\ \A z \in DOMAIN ZoneMembers :
              IF ZoneMembers[z] = {} THEN MetricRowsOf(z) = {}
              ELSE /\ Cardinality(MetricRowsOf(z)) = 1
                   /\ \A k \in MetricRowsOf(z) :
                         metrics[k].n = Cardinality(ZoneMembers[z])
        /\ \A k \in 1..Len(metrics) :
              metrics[k].zone \in DOMAIN ZoneMembers /\ metrics[k].n > 0
        /\ SumColumn(metrics, "n") = Len(mc_df)

\* Two records on either side of the boundary 60, whose reference and
\* prediction lie in other zones, counted in '<60' and in '60-90'.
C17_Witness ==
    /\ mc_pc = "done"
    /\ Len(mc_df) = 2
    /\ mc_df[1].scan_bpm = 59 /\ mc_df[2].scan_bpm = 60
    /\ mc_df[1].t10_bpm = 130 /\ mc_df[1].y_hat = 100
    /\ Len(metrics) = 2
    /\ metrics[1].zone = "60-90" /\ metrics[1].n = 1
    /\ metrics[2].zone = "<60" /\ metrics[2].n = 1


-----------------------------------------------------------------------------
(* The values of the emitted bins, under SpecResample.                       *)

\* C18: the scan_bpm of every emitted bin is the weighted sum of the bin over
\* its coverage, which is positive, and lies between the smallest and the
\* largest value of the segments that overlapped the bin; a turn of the loop
\* that reads a (duration, value) pair without moving the running instant (a
\* null or non-positive duration) leaves the sums and coverages of all bins
\* as they were.
C18_BinValueIsWeightedMean ==
    /\ [](rs_pc = "done" =>
            \A i \in 1..Len(result_df) :
                LET w == result_df[i].window_utc
                    num == result_df[i].scan_bpm[1]
                    den == result_df[i].scan_bpm[2]
                IN  /\ w \in DOMAIN window_data /\ w \in DOMAIN contributed
                    /\ num = window_data[w].weighted_sum
                    /\ den = window_data[w].coverage
                    /\ den = result_df[i].scan_coverage_s
                    /\ den > 0
                    /\ contributed[w] # {}
                    /\ SetMin(contributed[w]) * den <= num
                    /\ num <= SetMax(contributed[w]) * den)
    /\ [][(rs_cells' = rs_cells + 1 /\ current_time' = current_time)
            => window_data' = window_data]_vars

\* An emitted bin that two segments of different values overlapped, whose
\* scan_bpm lies strictly between the two values.
C18_Witness ==
    /\ rs_pc = "done"
    /\ \E i \in 1..Len(result_df) :
          LET w == result_df[i].window_utc IN
          /\ contributed[w] = {60, 100}
          /\ 60 * result_df[i].scan_bpm[2] < result_df[i].scan_bpm[1]
          /\ result_df[i].scan_bpm[1] < 100 * result_df[i].scan_bpm[2]


=============================================================================
